---- MODULE Spec2Model ----
(***************************************************************************)
(* Model of the bet parser (lib/parser.js) and of the webhook handler with *)
(* its /summarize aggregation.  Strings are sequences of one-character     *)
(* strings; JavaScript numbers are tagged records (see parseInt).          *)
(***************************************************************************)
EXTENDS Integers, Sequences, FiniteSets, TLC

VARIABLES
  text,      \* message.text of the update being composed or handled
  pc,        \* "typing", "pasted" or "handled"
  bets,      \* what parseMessageToBets returned for the last message
  rows,      \* the rows the handler handed to supabase insert
  table,     \* the bets rows the store returns for the chat
  cmd,       \* the flags of the last /summarize command
  filtered,  \* the rows the last /summarize passed to replyAggregates
  sent       \* the last message handed to sendTelegramMessage

vars == <<text, pc, bets, rows, table, cmd, filtered, sent>>

\* ------------------------------------------------------------------ bounds
\* Key presses per message in the parser specification.
MaxKeys == 5
\* Key presses after which a long digit run may still be pasted.
MaxPasteAt == 1
\* Length of a pasted digit run (long enough to overflow a double).
LongRun == 312
\* Rows the bets table holds in the aggregation specifications.
MaxRows == 3

\* ------------------------------------------------------- characters, strings
DigitChars == <<"0", "1", "2", "3", "4", "5", "6", "7", "8", "9">>

IsDigit(c) == c \in {"0", "1", "2", "3", "4", "5", "6", "7", "8", "9"}

DigitVal(c) == (CHOOSE i \in 1..10 : DigitChars[i] = c) - 1

\* The members of the regular expression class \s (and of trim) that the
\* model's alphabet can hold.
IsSpace(c) == c \in {" ", "\t", "\n", "\r"}

AllDigits(s) == \A i \in 1..Len(s) : IsDigit(s[i])

Min(S) == CHOOSE x \in S : \A y \in S : x <= y

\* String.prototype.trim
Trim(s) ==
  LET ns == {i \in 1..Len(s) : ~IsSpace(s[i])}
  IN  IF ns = {} THEN <<>>
      ELSE SubSeq(s, Min(ns), CHOOSE x \in ns : \A y \in ns : y <= x)

\* text.split(/\n|,/), from position start on
RECURSIVE SplitFrom(_, _)
SplitFrom(t, start) ==
  LET seps == {i \in start..Len(t) : t[i] \in {"\n", ","}}
  IN  IF seps = {} THEN <<SubSeq(t, start, Len(t))>>
      ELSE <<SubSeq(t, start, Min(seps) - 1)>> \o SplitFrom(t, Min(seps) + 1)

NonEmpty(s) == s # <<>>

\* .split(/\n|,/).map(s => s.trim()).filter(Boolean)
Parts(t) ==
  LET pieces == SplitFrom(t, 1)
  IN  SelectSeq([i \in 1..Len(pieces) |-> Trim(pieces[i])], NonEmpty)

KeepChar(e) == e.keep

\* part.replace(/\s+/g, " "): the first character of every whitespace run
\* becomes one space, the rest of the run is dropped.
Normalize(s) ==
  LET marked == [i \in 1..Len(s) |->
                   [c    |-> IF IsSpace(s[i]) THEN " " ELSE s[i],
                    keep |-> ~(IsSpace(s[i]) /\ i > 1 /\ IsSpace(s[i-1]))]]
      kept == SelectSeq(marked, KeepChar)
  IN  [i \in 1..Len(kept) |-> kept[i].c]

\* -------------------------------------------------------------- JS numbers
\* 2^53, below which every integer is a double.
Pow53Digits == <<9, 0, 0, 7, 1, 9, 9, 2, 5, 4, 7, 4, 0, 9, 9, 2>>

\* 2^1024 - 2^970: a decimal integer at or above it rounds to Infinity.
InfinityDigits ==
  <<
      1, 7, 9, 7, 6, 9, 3, 1, 3, 4, 8, 6, 2, 3, 1, 5, 8, 0, 7, 9, 3, 7, 2, 8, 9, 7, 1, 4, 0, 5, 3, 0, 3, 4, 1, 5, 0, 7, 9, 9,
      3, 4, 1, 3, 2, 7, 1, 0, 0, 3, 7, 8, 2, 6, 9, 3, 6, 1, 7, 3, 7, 7, 8, 9, 8, 0, 4, 4, 4, 9, 6, 8, 2, 9, 2, 7, 6, 4, 7, 5,
      0, 9, 4, 6, 6, 4, 9, 0, 1, 7, 9, 7, 7, 5, 8, 7, 2, 0, 7, 0, 9, 6, 3, 3, 0, 2, 8, 6, 4, 1, 6, 6, 9, 2, 8, 8, 7, 9, 1, 0,
      9, 4, 6, 5, 5, 5, 5, 4, 7, 8, 5, 1, 9, 4, 0, 4, 0, 2, 6, 3, 0, 6, 5, 7, 4, 8, 8, 6, 7, 1, 5, 0, 5, 8, 2, 0, 6, 8, 1, 9,
      0, 8, 9, 0, 2, 0, 0, 0, 7, 0, 8, 3, 8, 3, 6, 7, 6, 2, 7, 3, 8, 5, 4, 8, 4, 5, 8, 1, 7, 7, 1, 1, 5, 3, 1, 7, 6, 4, 4, 7,
      5, 7, 3, 0, 2, 7, 0, 0, 6, 9, 8, 5, 5, 5, 7, 1, 3, 6, 6, 9, 5, 9, 6, 2, 2, 8, 4, 2, 9, 1, 4, 8, 1, 9, 8, 6, 0, 8, 3, 4,
      9, 3, 6, 4, 7, 5, 2, 9, 2, 7, 1, 9, 0, 7, 4, 1, 6, 8, 4, 4, 4, 3, 6, 5, 5, 1, 0, 7, 0, 4, 3, 4, 2, 7, 1, 1, 5, 5, 9, 6,
      9, 9, 5, 0, 8, 0, 9, 3, 0, 4, 2, 8, 8, 0, 1, 7, 7, 9, 0, 4, 1, 7, 4, 4, 9, 7, 7, 9, 2 >>

\* a >= b for digit strings a and digit lists b of the same length
LexGeq(a, b) ==
  LET diff == {i \in 1..Len(a) : DigitVal(a[i]) # b[i]}
  IN  diff = {} \/ DigitVal(a[Min(diff)]) > b[Min(diff)]

\* a <= b, likewise
LexLeq(a, b) ==
  LET diff == {i \in 1..Len(a) : DigitVal(a[i]) # b[i]}
  IN  diff = {} \/ DigitVal(a[Min(diff)]) < b[Min(diff)]

StripZeros(ds) ==
  LET nz == {i \in 1..Len(ds) : ds[i] # "0"}
  IN  IF nz = {} THEN <<>> ELSE SubSeq(ds, Min(nz), Len(ds))

RECURSIVE DigitsValue(_)
DigitsValue(ds) ==
  IF ds = <<>> THEN 0
  ELSE 10 * DigitsValue(SubSeq(ds, 1, Len(ds) - 1)) + DigitVal(ds[Len(ds)])

Infinity == [kind |-> "Infinity"]

\* The integer a digit string denotes: a model integer up to nine digits,
\* its significant digits beyond.
IntegerOf(ds) ==
  LET sig == StripZeros(ds)
  IN  IF Len(sig) <= 9 THEN [kind |-> "int", val |-> DigitsValue(sig)]
      ELSE [kind |-> "bigint", digits |-> sig]

\* parseInt(ds, 10) of a digit string: a double.  Exact up to 2^53; beyond,
\* the nearest double (an integer, in general another one); Infinity from
\* 2^1024 - 2^970 on.
parseInt(ds) ==
  LET sig == StripZeros(ds)
      n   == Len(sig)
  IN  IF n > 309 \/ (n = 309 /\ LexGeq(sig, InfinityDigits)) THEN Infinity
      ELSE IF n < 16 \/ (n = 16 /\ LexLeq(sig, Pow53Digits)) THEN IntegerOf(ds)
      ELSE [kind |-> "double", nearest |-> sig]

\* Number.isInteger
IsInteger(x) == x.kind \in {"int", "bigint", "double"}

\* ------------------------------------------------------------------ parser
\* function pad2(s)
pad2(s) == IF Len(s) = 1 THEN <<"0">> \o s ELSE s

\* String.prototype.padStart(2, "0")
padStart2(s) ==
  IF Len(s) >= 2 THEN s ELSE [i \in 1..(2 - Len(s)) |-> "0"] \o s

\* reverse2 that pads and does not reverse
reverse2NoReverse(s) == padStart2(s)

\* function reverse2(s)
reverse2(s) ==
  LET t == padStart2(s)
  IN  [i \in 1..Len(t) |-> t[Len(t) + 1 - i]]

\* What may stand between the number and the amount, per pattern:
\*   1  \s*[-_dD]?\s*    2  \s*[rR]\s*    3  \s*=\s*    4  \s+
MiddleMatches(rule, mid) ==
  LET ns == SelectSeq(mid, LAMBDA c : ~IsSpace(c))
  IN  CASE rule = 1 -> ns = <<>> \/ (Len(ns) = 1 /\ ns[1] \in {"-", "_", "d", "D"})
        [] rule = 2 -> Len(ns) = 1 /\ ns[1] \in {"r", "R"}
        [] rule = 3 -> Len(ns) = 1 /\ ns[1] = "="
        [] rule = 4 -> ns = <<>> /\ Len(mid) >= 1

\* One attempt of ^(\d{1,2})<middle>(\d+)$ with the first group n long.  No
\* middle holds a digit, so the second group starts at the first digit after
\* the first group and runs to the end.
MatchWith(rule, part, n) ==
  IF n > Len(part) THEN [ok |-> FALSE, m1 |-> <<>>, m2 |-> <<>>]
  ELSE
  LET rest == SubSeq(part, n + 1, Len(part))
      dg   == {i \in 1..Len(rest) : IsDigit(rest[i])}
      k    == IF dg = {} THEN Len(rest) ELSE Min(dg) - 1
      amt  == SubSeq(rest, k + 1, Len(rest))
  IN  [ok |-> /\ AllDigits(SubSeq(part, 1, n))
              /\ MiddleMatches(rule, SubSeq(rest, 1, k))
              /\ Len(amt) >= 1
              /\ AllDigits(amt),
       m1 |-> SubSeq(part, 1, n),
       m2 |-> amt]

\* part.match(pattern): \d{1,2} is greedy, two digits are tried first.
Match(rule, part) ==
  LET two == MatchWith(rule, part, 2)
  IN  IF two.ok THEN two ELSE MatchWith(rule, part, 1)

Bet(num, amt) == [number |-> num, amount |-> amt]

\* The loop body without its continue statements: every pattern that
\* matches pushes.
PartBetsNoContinue(p) ==
  LET part == Normalize(p)
      m1 == Match(1, part)
      m2 == Match(2, part)
      m3 == Match(3, part)
      m4 == Match(4, part)
  IN  (IF m1.ok THEN <<Bet(pad2(m1.m1), parseInt(m1.m2))>> ELSE <<>>)
      \o (IF m2.ok THEN <<Bet(pad2(m2.m1), parseInt(m2.m2)),
                          Bet(reverse2(pad2(m2.m1)), parseInt(m2.m2))>> ELSE <<>>)
      \o (IF m3.ok THEN <<Bet(pad2(m3.m1), parseInt(m3.m2))>> ELSE <<>>)
      \o (IF m4.ok THEN <<Bet(pad2(m4.m1), parseInt(m4.m2))>> ELSE <<>>)

\* The body of the for loop: the bets one part pushes.
PartBets(p) ==
  LET part == Normalize(p)
      m1 == Match(1, part)
      m2 == Match(2, part)
      m3 == Match(3, part)
      m4 == Match(4, part)
  IN  IF m1.ok THEN <<Bet(pad2(m1.m1), parseInt(m1.m2))>>
      ELSE IF m2.ok THEN <<Bet(pad2(m2.m1), parseInt(m2.m2)),
                           Bet(reverse2(pad2(m2.m1)), parseInt(m2.m2))>>
      ELSE IF m3.ok THEN <<Bet(pad2(m3.m1), parseInt(m3.m2))>>
      ELSE IF m4.ok THEN <<Bet(pad2(m4.m1), parseInt(m4.m2))>>
      ELSE <<>>

RECURSIVE PushAll(_, _)
PushAll(parts, acc) ==
  IF parts = <<>> THEN acc
  ELSE PushAll(Tail(parts), acc \o PartBets(Head(parts)))

\* export function parseMessageToBets(text)
parseMessageToBets(t) ==
  IF t = <<>> THEN <<>> ELSE PushAll(Parts(t), <<>>)

\* ----------------------------------------------------------------- handler
NoMessage == [kind |-> "none", lines |-> <<>>]

NoCmd == [perUser |-> FALSE, before12 |-> FALSE]

\* The sender and chat of the update (message.from, message.chat.id).
MsgSender == <<"b", "o", "b">>

MsgChatId == 1

SummarizeCmd == <<"/", "s", "u", "m", "m", "a", "r", "i", "z", "e">>

\* String.prototype.startsWith
StartsWith(s, prefix) ==
  Len(s) >= Len(prefix) /\ SubSeq(s, 1, Len(prefix)) = prefix

\* bets.map(b => ({number, amount, sender, chat_id}))
InsertRows(bs) ==
  [i \in 1..Len(bs) |->
     [number |-> bs[i].number, amount |-> bs[i].amount,
      sender |-> MsgSender, chat_id |-> MsgChatId]]

\* rows.map(r => `${r.number} - ${r.amount}`): the lines of the confirmation
SavedLines(rs) ==
  [i \in 1..Len(rs) |-> [number |-> rs[i].number, amount |-> rs[i].amount]]

\* The characters a key press appends to the message.
Alphabet == {"1", "r", "-", "=", " ", ",", "\n"}

\* The digits a pasted run is made of.
PasteAlphabet == {"0", "1"}

\* The user types one more character.
TypeKey(c) ==
  /\ pc = "typing"
  /\ Len(text) < MaxKeys
  /\ text' = Append(text, c)
  /\ UNCHANGED <<pc, bets, rows, table, cmd, filtered, sent>>

\* The user pastes a run of LongRun copies of one digit and stops typing.
PasteDigits(d) ==
  /\ pc = "typing"
  /\ Len(text) <= MaxPasteAt
  /\ text' = text \o [i \in 1..LongRun |-> d]
  /\ pc' = "pasted"
  /\ UNCHANGED <<bets, rows, table, cmd, filtered, sent>>

\* export default async function handler(req, res), on a message that is
\* not a command: parse, and insert and confirm what was parsed.
handler ==
  /\ pc \in {"typing", "pasted"}
  /\ ~StartsWith(Trim(text), SummarizeCmd)
  /\ LET bs == parseMessageToBets(Trim(text))
         rs == InsertRows(bs)
     IN  /\ bets' = bs
         /\ rows' = rs
         /\ sent' = IF bs = <<>> THEN NoMessage
                    ELSE [kind |-> "saved", lines |-> SavedLines(rs)]
  /\ pc' = "handled"
  /\ UNCHANGED <<text, table, cmd, filtered>>

\* The request is answered and the next update awaited: nothing but the
\* store is kept from one request to the next.
NextMessage ==
  /\ pc = "handled"
  /\ text' = <<>>
  /\ pc' = "typing"
  /\ bets' = <<>>
  /\ rows' = <<>>
  /\ cmd' = NoCmd
  /\ filtered' = <<>>
  /\ sent' = NoMessage
  /\ UNCHANGED table

Init ==
  /\ text = <<>>
  /\ pc = "typing"
  /\ bets = <<>>
  /\ rows = <<>>
  /\ table = <<>>
  /\ cmd = NoCmd
  /\ filtered = <<>>
  /\ sent = NoMessage

NextParser ==
  \/ \E c \in Alphabet : TypeKey(c)
  \/ \E d \in PasteAlphabet : PasteDigits(d)
  \/ handler
  \/ NextMessage

SpecParser == Init /\ [][NextParser]_vars

\* ---------------------------------------------------- JS values, coercions
NaN == [kind |-> "NaN"]

Undefined == [kind |-> "undefined"]

Null == [kind |-> "null"]

Num(n) == [kind |-> "int", val |-> n]

Str(chars) == [kind |-> "string", chars |-> chars]

\* ToBoolean
Truthy(v) ==
  CASE v.kind = "int" -> v.val # 0
    [] v.kind = "string" -> v.chars # <<>>
    [] v.kind \in {"NaN", "undefined", "null"} -> FALSE
    [] OTHER -> TRUE

\* Number(v), for numbers, null, undefined and strings of digits, letters and
\* spaces (no sign, point, exponent or radix prefix).
Number(v) ==
  CASE v.kind = "string" ->
         IF Trim(v.chars) = <<>> THEN Num(0)
         ELSE IF AllDigits(Trim(v.chars)) THEN parseInt(Trim(v.chars))
         ELSE NaN
    [] v.kind = "null" -> Num(0)
    [] v.kind = "undefined" -> NaN
    [] OTHER -> v

\* a || 0
OrZero(v) == IF Truthy(v) THEN v ELSE Num(0)

\* a + b on numbers below 2^31 and NaN
Plus(a, b) ==
  IF a.kind = "NaN" \/ b.kind = "NaN" THEN NaN ELSE Num(a.val + b.val)

\* -------------------------------------------------------------- JS objects
\* An object is the sequence of its own properties, in creation order.
ObjHas(obj, k) == \E i \in 1..Len(obj) : obj[i].key = k

ObjGet(obj, k) ==
  IF ObjHas(obj, k) THEN obj[CHOOSE i \in 1..Len(obj) : obj[i].key = k].val
  ELSE Undefined

ObjSet(obj, k, v) ==
  IF ObjHas(obj, k)
  THEN [i \in 1..Len(obj) |-> IF obj[i].key = k THEN [key |-> k, val |-> v] ELSE obj[i]]
  ELSE Append(obj, [key |-> k, val |-> v])

\* 2^32 - 2, the largest array index
MaxIndexDigits == <<4, 2, 9, 4, 9, 6, 7, 2, 9, 4>>

\* A property key that is an array index: the canonical decimal string of an
\* integer from 0 to 2^32 - 2.
IsArrayIndex(k) ==
  /\ Len(k) >= 1
  /\ AllDigits(k)
  /\ (k[1] # "0" \/ Len(k) = 1)
  /\ (Len(k) < 10 \/ (Len(k) = 10 /\ LexLeq(k, MaxIndexDigits)))

\* Ascending numeric order of two array indices
IndexLess(a, b) ==
  \/ Len(a) < Len(b)
  \/ Len(a) = Len(b) /\ a # b /\ LexLeq(a, [i \in 1..Len(b) |-> DigitVal(b[i])])

IsIndexEntry(e) == IsArrayIndex(e.key)

IsNamedEntry(e) == ~IsArrayIndex(e.key)

RECURSIVE SortIndexEntries(_)
SortIndexEntries(es) ==
  IF es = <<>> THEN <<>>
  ELSE LET i == CHOOSE i \in 1..Len(es) :
                  \A j \in 1..Len(es) : j = i \/ IndexLess(es[i].key, es[j].key)
       IN  <<es[i]>> \o SortIndexEntries(SubSeq(es, 1, i - 1) \o SubSeq(es, i + 1, Len(es)))

\* Object.entries(obj): OrdinaryOwnPropertyKeys lists the array indices first,
\* in ascending numeric order, then the other string keys in creation order.
ObjectEntries(obj) ==
  SortIndexEntries(SelectSeq(obj, IsIndexEntry)) \o SelectSeq(obj, IsNamedEntry)

\* Object.keys(obj)
ObjectKeys(obj) ==
  [i \in 1..Len(obj) |-> ObjectEntries(obj)[i].key]

\* The UTF-16 code unit of a character the model uses.
CodeUnit(c) ==
  IF IsDigit(c) THEN 48 + DigitVal(c)
  ELSE CASE c = "\t" -> 9 [] c = "\n" -> 10 [] c = "\r" -> 13 [] c = " " -> 32
         [] c = "," -> 44 [] c = "-" -> 45 [] c = "/" -> 47 [] c = "=" -> 61
         [] c = "D" -> 68 [] c = "R" -> 82 [] c = "_" -> 95
         [] c = "a" -> 97 [] c = "b" -> 98 [] c = "d" -> 100 [] c = "e" -> 101
         [] c = "i" -> 105 [] c = "m" -> 109 [] c = "o" -> 111 [] c = "r" -> 114
         [] c = "s" -> 115 [] c = "u" -> 117 [] c = "x" -> 120 [] c = "y" -> 121
         [] c = "z" -> 122

\* a < b as Array.prototype.sort() compares strings: by code units
StrLess(a, b) ==
  LET diff == {i \in 1..Len(a) : i <= Len(b) /\ a[i] # b[i]}
  IN  IF diff = {} THEN Len(a) < Len(b)
      ELSE CodeUnit(a[Min(diff)]) < CodeUnit(b[Min(diff)])

\* The keys left in the order Object.keys lists them
NoSort(ks) == ks

\* keys.sort(), on distinct strings
RECURSIVE Sort(_)
Sort(ks) ==
  IF ks = <<>> THEN <<>>
  ELSE LET i == CHOOSE i \in 1..Len(ks) :
                  \A j \in 1..Len(ks) : j = i \/ StrLess(ks[i], ks[j])
       IN  <<ks[i]>> \o Sort(SubSeq(ks, 1, i - 1) \o SubSeq(ks, i + 1, Len(ks)))

\* -------------------------------------------------------------- aggregation
\* rows.reduce((acc, r) => { acc[r.number] = (acc[r.number] || 0) +
\*                           (Number(r.amount) || 0); return acc; }, {})
RECURSIVE ReduceTotals(_, _)
ReduceTotals(rs, acc) ==
  IF rs = <<>> THEN acc
  ELSE LET r == Head(rs)
       IN  ReduceTotals(Tail(rs),
             ObjSet(acc, r.number,
                    Plus(OrZero(ObjGet(acc, r.number)), OrZero(Number(r.amount)))))

\* for (const r of rows) { map[r.number] = map[r.number] || {};
\*   map[r.number][r.sender] = (map[r.number][r.sender] || 0) + Number(r.amount || 0); }
RECURSIVE GroupPerUser(_, _)
GroupPerUser(rs, map) ==
  IF rs = <<>> THEN map
  ELSE LET r == Head(rs)
           inner == IF ObjHas(map, r.number) THEN ObjGet(map, r.number) ELSE <<>>
       IN  GroupPerUser(Tail(rs),
             ObjSet(map, r.number,
                    ObjSet(inner, r.sender,
                           Plus(OrZero(ObjGet(inner, r.sender)),
                                Number(OrZero(r.amount))))))

\* Object.keys(agg).sort().map(n => `${n} - ${agg[n]}`)
TotalLines(rs) ==
  LET agg == ReduceTotals(rs, <<>>)
      numbers == Sort(ObjectKeys(agg))
  IN  [i \in 1..Len(numbers) |->
         [number |-> numbers[i], sum |-> ObjGet(agg, numbers[i])]]

\* Object.entries(map[n]).map(([sender, sum]) => `${sender}: ${sum}`)
SenderParts(inner) ==
  [i \in 1..Len(inner) |->
     [sender |-> ObjectEntries(inner)[i].key, sum |-> ObjectEntries(inner)[i].val]]

\* for (const n of Object.keys(map).sort()) lines.push(`${n} -> ${parts}`)
PerUserLines(rs) ==
  LET map == GroupPerUser(rs, <<>>)
      numbers == Sort(ObjectKeys(map))
  IN  [i \in 1..Len(numbers) |->
         [number |-> numbers[i], parts |-> SenderParts(ObjGet(map, numbers[i]))]]

\* replyAggregates without its guard for no rows
replyAggregatesUnguarded(rs, perUser) ==
  IF ~perUser THEN [kind |-> "numbers", lines |-> TotalLines(rs)]
  ELSE [kind |-> "peruser", lines |-> PerUserLines(rs)]

\* async function replyAggregates(rows, chatId, perUser): the message sent
replyAggregates(rs, perUser) ==
  IF rs = <<>> THEN [kind |-> "nodata", lines |-> <<>>]
  ELSE IF ~perUser THEN [kind |-> "numbers", lines |-> TotalLines(rs)]
  ELSE [kind |-> "peruser", lines |-> PerUserLines(rs)]

\* ----------------------------------------------------------- before12 filter
\* The offset with its half hour lost: 6 * 60 * 60 * 1000
WholeHourOffsetMs == 6 * 60 * 60 * 1000

\* 6.5 * 60 * 60 * 1000
YangonOffsetMs == (65 * 60 * 60 * 1000) \div 10

\* Date.prototype.getUTCHours of a time value: floor(t / msPerHour) modulo 24
getUTCHours(t) == (t \div 3600000) % 24

\* r => new Date(new Date(r.created_at).getTime() + 6.5h).getUTCHours() < 12
BeforeNoonLocal(r) == getUTCHours(r.created_at + YangonOffsetMs) < 12

\* async function handleSummarize(commandText, chatId, requesterId), with the
\* command's flags and the outcome of the select as inputs
handleSummarize(perUser, before12, dbError) ==
  /\ pc = "typing"
  /\ pc' = "handled"
  /\ cmd' = [perUser |-> perUser, before12 |-> before12]
  /\ IF dbError
     THEN /\ filtered' = <<>>
          /\ sent' = [kind |-> "error", lines |-> <<>>]
     ELSE LET rs == IF before12 THEN SelectSeq(table, BeforeNoonLocal) ELSE table
          IN  /\ filtered' = rs
              /\ sent' = replyAggregates(rs, perUser)
  /\ UNCHANGED <<text, bets, rows, table>>

\* ------------------------------------------------ the store, as it is read
AggNumbers == {<<"0", "7">>, <<"1", "0">>}

AggSenders == {<<"a", "m", "y">>, <<"7">>, <<"1", "0">>}

AggAmounts == {Num(1), Num(2), Str(<<"x">>)}

\* 1970-01-01T12:00:00Z, 18:30 in Yangon
AggCreatedAt == 12 * 3600000

\* A row of the chat appears in the bets table, between two requests.
InsertRow(n, a, s) ==
  /\ pc = "typing"
  /\ Len(table) < MaxRows
  /\ table' = Append(table, [number |-> n, amount |-> a, sender |-> s,
                             created_at |-> AggCreatedAt])
  /\ UNCHANGED <<text, pc, bets, rows, cmd, filtered, sent>>

NextAgg ==
  \/ \E n \in AggNumbers, a \in AggAmounts, s \in AggSenders : InsertRow(n, a, s)
  \/ \E perUser \in BOOLEAN, dbError \in BOOLEAN : handleSummarize(perUser, FALSE, dbError)
  \/ NextMessage

SpecAgg == Init /\ [][NextAgg]_vars

\* Instants around the window's two edges, UTC midnight and UTC noon, on two days
DayMs == 24 * 3600000

FilterTimes ==
  {d * DayMs + e + b : d \in 0..1, e \in -1..1,
                       b \in {0, (11 * 3600000) \div 2, 12 * 3600000, (35 * 3600000) \div 2}}

MaxFilterRows == 2

\* A row created at t appears in the bets table, between two requests.
InsertRowAt(t) ==
  /\ pc = "typing"
  /\ Len(table) < MaxFilterRows
  /\ table' = Append(table, [number |-> <<"0", "7">>, amount |-> Num(1),
                             sender |-> <<"a", "m", "y">>, created_at |-> t])
  /\ UNCHANGED <<text, pc, bets, rows, cmd, filtered, sent>>

NextFilter ==
  \/ \E t \in FilterTimes : InsertRowAt(t)
  \/ \E perUser \in BOOLEAN, before12 \in BOOLEAN, dbError \in BOOLEAN :
       handleSummarize(perUser, before12, dbError)
  \/ NextMessage

SpecFilter == Init /\ [][NextFilter]_vars

\* ============================================================ parser claims
\* The ends of the pieces of a text: before its first character, at each
\* newline or comma, after its last character.
PieceEnds(t) == {0, Len(t) + 1} \cup {i \in 1..Len(t) : t[i] = "\n" \/ t[i] = ","}

\* The k-th piece lies between the k-th and the (k+1)-th end.
NthEnd(t, k) ==
  CHOOSE e \in PieceEnds(t) : Cardinality({x \in PieceEnds(t) : x < e}) = k - 1

Pieces(t) ==
  [k \in 1..(Cardinality(PieceEnds(t)) - 1) |->
     SubSeq(t, NthEnd(t, k) + 1, NthEnd(t, k + 1) - 1)]

\* A piece without the white space at its two ends
Trimmed(p) ==
  IF \A q \in 1..Len(p) : IsSpace(p[q]) THEN <<>>
  ELSE SubSeq(p,
              CHOOSE lo \in 1..Len(p) : ~IsSpace(p[lo]) /\ \A q \in 1..(lo - 1) : IsSpace(p[q]),
              CHOOSE hi \in 1..Len(p) : ~IsSpace(p[hi]) /\ \A q \in (hi + 1)..Len(p) : IsSpace(p[q]))

\* The segments of a text: its trimmed, non-empty pieces, in order.
Segments(t) ==
  SelectSeq([k \in 1..Len(Pieces(t)) |-> Trimmed(Pieces(t)[k])], NonEmpty)

RuleDelims(rule) ==
  CASE rule = 1 -> {"-", "_", "d", "D"}
    [] rule = 2 -> {"r", "R"}
    [] rule = 3 -> {"="}
    [] rule = 4 -> {}

\* mid is: spaces, then (rule 1: at most one; rules 2, 3: exactly one; rule 4:
\* no) delimiter of the rule, then spaces; rule 4 needs one space at least.
MiddleOfRule(rule, mid) ==
  \E a \in 0..Len(mid), d \in (IF rule = 1 THEN {0, 1} ELSE IF rule = 4 THEN {0} ELSE {1}) :
    /\ a + d <= Len(mid)
    /\ \A q \in 1..a : IsSpace(mid[q])
    /\ d = 1 => mid[a + 1] \in RuleDelims(rule)
    /\ \A q \in (a + d + 1)..Len(mid) : IsSpace(mid[q])
    /\ rule = 4 => Len(mid) >= 1

\* Where the amount of a segment whose number is i long can start: right
\* after the number or after a character that is no digit (a middle holds none).
AmountStarts(seg, i) ==
  {j \in (i + 1)..Len(seg) : j = i + 1 \/ ~IsDigit(seg[j - 1])}

\* seg is a number of i digits, the middle of the rule, an amount from j on.
FitsAt(rule, seg, i, j) ==
  /\ i < j /\ j <= Len(seg)
  /\ AllDigits(SubSeq(seg, 1, i))
  /\ AllDigits(SubSeq(seg, j, Len(seg)))
  /\ MiddleOfRule(rule, SubSeq(seg, i + 1, j - 1))

Fits(rule, seg, i) == \E j \in AmountStarts(seg, i) : FitsAt(rule, seg, i, j)

SegmentMatches(rule, seg) == Fits(rule, seg, 1) \/ Fits(rule, seg, 2)

ZeroPadded(num) == IF Len(num) = 1 THEN <<"0", num[1]>> ELSE num

Reversed(nn) == <<nn[2], nn[1]>>

\* The number of a segment under a rule it matches: two digits where the rest
\* still matches, else one.
NumberOf(rule, seg) ==
  IF Fits(rule, seg, 2) THEN SubSeq(seg, 1, 2) ELSE SubSeq(seg, 1, 1)

AmountDigitsOf(rule, seg) ==
  LET i == Len(NumberOf(rule, seg))
  IN  SubSeq(seg, CHOOSE j \in AmountStarts(seg, i) : FitsAt(rule, seg, i, j), Len(seg))

\* The bets of a rule for a segment that matches it.
BetsOfRule(rule, seg) ==
  LET nn  == ZeroPadded(NumberOf(rule, seg))
      amt == parseInt(AmountDigitsOf(rule, seg))
  IN  IF rule = 2 THEN <<Bet(nn, amt), Bet(Reversed(nn), amt)>> ELSE <<Bet(nn, amt)>>

\* A segment's own contribution: the bets of the first rule it matches.
Contribution(seg) ==
  LET matched == {rule \in 1..4 : SegmentMatches(rule, seg)}
  IN  IF matched = {} THEN <<>> ELSE BetsOfRule(Min(matched), seg)

RECURSIVE Contributions(_)
Contributions(segs) ==
  IF segs = <<>> THEN <<>>
  ELSE Contribution(Head(segs)) \o Contributions(Tail(segs))

BetsBefore(segs, k) == Len(Contributions(SubSeq(segs, 1, k - 1)))

\* C2: a segment <1-2 digits> r|R <digits> (spaces allowed around the letter)
\* gives two consecutive bets, the zero-padded number and then the reversal of
\* its padded form, with the same amount.
C2_ReversePair ==
  pc = "handled" =>
    LET segs == Segments(text)
    IN  \A k \in 1..Len(segs) :
          SegmentMatches(2, segs[k]) =>
            LET at == BetsBefore(segs, k)
                nn == ZeroPadded(NumberOf(2, segs[k]))
            IN  /\ Len(bets) >= at + 2
                /\ bets[at + 1].number = nn
                /\ bets[at + 2].number = Reversed(nn)
                /\ bets[at + 1].amount = bets[at + 2].amount
                /\ k = Len(segs) => Len(bets) = at + 2

\* C2's case: a reverse segment with a one-digit number other than 0, whose
\* reversal goes through the padded form.
C2_Witness ==
  /\ pc = "handled"
  /\ Len(bets) = 2
  /\ bets[1].number # bets[2].number
  /\ LET segs == Segments(text)
     IN  \E k \in 1..Len(segs) :
           SegmentMatches(2, segs[k]) /\ Len(NumberOf(2, segs[k])) = 1

\* Two decimal digits
IsTwoDigits(n) == Len(n) = 2 /\ IsDigit(n[1]) /\ IsDigit(n[2])

\* C3: every bet parsed, and every row built from it, has a number of exactly
\* two decimal digits and an amount that is a non-negative integer.
C3_BetsWellFormed ==
  /\ \A i \in 1..Len(bets) : IsTwoDigits(bets[i].number) /\ IsInteger(bets[i].amount)
  /\ \A i \in 1..Len(rows) : IsTwoDigits(rows[i].number) /\ IsInteger(rows[i].amount)

\* C10: a segment of k digits and nothing else gives no bet for k = 1, the
\* bet ("0" first digit, second digit) for k = 2, and the bet (first two
\* digits, the integer the remaining digits denote) for k >= 3.
C10_DigitsOnly ==
  (pc = "handled" /\ text # <<>> /\ AllDigits(text)) =>
    bets = IF Len(text) = 1 THEN <<>>
           ELSE IF Len(text) = 2 THEN <<Bet(<<"0", text[1]>>, IntegerOf(<<text[2]>>))>>
           ELSE <<Bet(SubSeq(text, 1, 2), IntegerOf(SubSeq(text, 3, Len(text))))>>

\* ======================================================= aggregation claims
\* The records of a collection with a given number, and with a given sender
WithNumber(rs, n) == SelectSeq(rs, LAMBDA r : r.number = n)

WithSender(rs, who) == SelectSeq(rs, LAMBDA r : r.sender = who)

\* What an amount counts for: its value where it is a number or a string of
\* digits, zero where it does not coerce to a number.
AmountValue(a) ==
  IF a.kind = "int" THEN a.val
  ELSE IF a.kind = "string" /\ a.chars # <<>> /\ AllDigits(a.chars) THEN DigitsValue(a.chars)
  ELSE 0

Coerces(a) == a.kind = "int" \/ (a.kind = "string" /\ a.chars # <<>> /\ AllDigits(a.chars))

RECURSIVE SumOfAmounts(_)
SumOfAmounts(rs) ==
  IF rs = <<>> THEN 0 ELSE AmountValue(Head(rs).amount) + SumOfAmounts(Tail(rs))

NumbersIn(rs) == {rs[i].number : i \in 1..Len(rs)}

TwoDigitValue(n) == 10 * DigitVal(n[1]) + DigitVal(n[2])

\* The summary request was answered from the store (the select did not fail).
Answered == pc = "handled" /\ sent.kind \in {"nodata", "numbers", "peruser"}

\* C4: in total mode a non-empty collection gives one line per distinct
\* number, each with the sum of the amounts of the records with that number,
\* in strictly ascending order of the number.
C4_TotalMode ==
  (Answered /\ ~cmd.perUser /\ filtered # <<>>) =>
    /\ sent.kind = "numbers"
    /\ Len(sent.lines) = Cardinality(NumbersIn(filtered))
    /\ {sent.lines[i].number : i \in 1..Len(sent.lines)} = NumbersIn(filtered)
    /\ \A i \in 1..Len(sent.lines) :
         sent.lines[i].sum = Num(SumOfAmounts(WithNumber(filtered, sent.lines[i].number)))
    /\ \A i \in 1..(Len(sent.lines) - 1) :
         TwoDigitValue(sent.lines[i].number) < TwoDigitValue(sent.lines[i + 1].number)

\* C4's case: the greater number was recorded first and the smaller one twice.
C4_Witness ==
  /\ Answered /\ ~cmd.perUser
  /\ Len(filtered) = 3
  /\ filtered[1].number = <<"1", "0">>
  /\ filtered[2].number = <<"0", "7">> /\ filtered[3].number = <<"0", "7">>
  /\ \A i \in 1..3 : Coerces(filtered[i].amount)
  /\ Len(sent.lines) = 2

\* The senders of a collection, each once, in the order of first appearance
RECURSIVE FirstAppearances(_, _)
FirstAppearances(rs, seen) ==
  IF rs = <<>> THEN seen
  ELSE FirstAppearances(Tail(rs),
         IF \E i \in 1..Len(seen) : seen[i] = Head(rs).sender THEN seen
         ELSE Append(seen, Head(rs).sender))

\* C5: in per-sender mode the senders on a number's line stand in the order
\* in which each first occurs among the records with that number, whatever
\* the sender strings are.
C5_FirstAppearanceOrder ==
  (Answered /\ cmd.perUser /\ filtered # <<>>) =>
    \A i \in 1..Len(sent.lines) :
      [k \in 1..Len(sent.lines[i].parts) |-> sent.lines[i].parts[k].sender]
        = FirstAppearances(WithNumber(filtered, sent.lines[i].number), <<>>)

\* The sum of the amounts a per-sender line reports
RECURSIVE SumOfParts(_)
SumOfParts(parts) ==
  IF parts = <<>> THEN Num(0)
  ELSE Plus(SumOfParts(SubSeq(parts, 1, Len(parts) - 1)), parts[Len(parts)].sum)

\* The line of a report for a number
LineOf(lines, n) == lines[CHOOSE i \in 1..Len(lines) : lines[i].number = n]

\* C6: for a non-empty collection and every number in it, the amount total
\* mode reports equals the sum over the senders of the amounts per-sender
\* mode reports.
C6_ModesAgree ==
  (Answered /\ filtered # <<>>) =>
    LET total == IF cmd.perUser THEN TotalLines(filtered) ELSE sent.lines
        perSender == IF cmd.perUser THEN sent.lines ELSE PerUserLines(filtered)
    IN  \A n \in NumbersIn(filtered) :
          /\ \E i \in 1..Len(total) : total[i].number = n
          /\ \E i \in 1..Len(perSender) : perSender[i].number = n
          /\ LineOf(total, n).sum = SumOfParts(LineOf(perSender, n).parts)

\* C7: in both modes a record whose amount does not coerce to a number counts
\* zero: each reported sum is the sum of the numeric amounts of its group,
\* and a report is sent.
C7_NonNumericCountsZero ==
  (Answered /\ filtered # <<>>) =>
    /\ sent.kind = IF cmd.perUser THEN "peruser" ELSE "numbers"
    /\ \A i \in 1..Len(sent.lines) :
         LET group == WithNumber(filtered, sent.lines[i].number)
         IN  IF cmd.perUser
             THEN \A k \in 1..Len(sent.lines[i].parts) :
                    sent.lines[i].parts[k].sum
                      = Num(SumOfAmounts(WithSender(group, sent.lines[i].parts[k].sender)))
             ELSE sent.lines[i].sum = Num(SumOfAmounts(group))

\* The UTC time of day of an instant lies in [17:30, 24:00) or [00:00, 05:30).
InWindow(t) == (t % 86400000) >= 63000000 \/ (t % 86400000) < 19800000

RowInWindow(r) == InWindow(r.created_at)

\* The rows a summary request is to aggregate
Received == IF cmd.before12 THEN SelectSeq(table, RowInWindow) ELSE table

\* C8: the "No data found for summary." message is sent, and no report,
\* exactly when the collection to aggregate is empty, in both modes, also
\* when only the before-noon filter emptied it; a non-empty collection gives
\* a report of at least one line.
C8_NoDataIffEmpty ==
  Answered =>
    /\ sent.kind = "nodata" <=> Received = <<>>
    /\ sent.kind = "nodata" => sent.lines = <<>>
    /\ Received # <<>> =>
         /\ sent.kind = IF cmd.perUser THEN "peruser" ELSE "numbers"
         /\ Len(sent.lines) >= 1

\* C8's case: rows were fetched and the before-noon filter removed them all.
C8_Witness ==
  /\ Answered /\ cmd.before12 /\ cmd.perUser
  /\ table # <<>>
  /\ sent.kind = "nodata"

\* C9: the before-noon filter keeps a record created at t iff
\* floor(((t + 23400000) mod 86400000) / 3600000) < 12, that is iff the UTC
\* time of day of t lies in [17:30, 24:00) or [00:00, 05:30).
C9_BeforeNoonWindow ==
  (Answered /\ cmd.before12) =>
    /\ filtered = SelectSeq(table, RowInWindow)
    /\ \A i \in 1..Len(table) :
         InWindow(table[i].created_at)
           <=> ((table[i].created_at + 23400000) % 86400000) \div 3600000 < 12

\* C9's case: of two records created at 05:30:00.000 UTC and a millisecond
\* earlier, the earlier one alone is kept.
C9_Witness ==
  /\ Answered /\ cmd.before12
  /\ Len(table) = 2
  /\ table[1].created_at = 86400000 + 19800000
  /\ table[2].created_at = 86400000 + 19799999
  /\ filtered = <<table[2]>>

====
